---------------------------- MODULE Spec2Model ----------------------------
(* LINE health-programme bot (src/index.js): the per-message resolver, the    *)
(* AI cooldown gate, the start-date cache and its durable store (the Google   *)
(* Apps Script sheet), with handlers interleaving at their await points.      *)
(*                                                                            *)
(* A text is a sequence of characters.  ASCII characters stand for            *)
(* themselves; every CJK character is written as one token:                   *)
(*   qing wen = 請問      kai shi = 開始       chong xin = 重新               *)
(*   di = 第  tian = 天   jin = 今  shi4 = 是  na = 哪  yi = 一  ji = 幾       *)
(*   cai dan = 菜單       ri = 日              pei ban ti xing = 陪伴提醒     *)
(*   gu li wo = 鼓勵我    bang zhu = 幫助      yong4 shuo ming = 使用說明     *)
(*   zhuang tai = 狀態    ka fei yin = 咖啡因  he cha = 喝茶                  *)
(*   jiu jing = 酒精      shou yao yin3 liao = 手搖飲料                       *)
(*   zhen zhu nai = 珍珠奶   chang = 腸       FWQ = full-width question mark  *)
(*   zao can = 早餐          NaS = a message text that is not a string        *)
EXTENDS Integers, Sequences, FiniteSets, TLC

-----------------------------------------------------------------------------
(* State                                                                      *)

VARIABLES
  aiCooldown,  \* aiCooldown: targetId -> time of the last call, 0 when absent
  startCache,  \* startCache: cache key -> start date, NoDate when absent
  sheet,       \* the durable store behind GAS_URL: cache key -> start date
  now,         \* the latest reading of Date.now()
  today,       \* the date getTodayISO_TW() returns
  deploy,      \* the deployment (fixed)
  inflight,    \* the handlers suspended at an await
  step,        \* what the latest run of handler code did
  accepted,    \* history: per targetId, when a question last passed the gate
  process,     \* the Node process: "running" or "exited"
  history      \* history: failed backend calls, failed store calls, dates commanded

vars ==
  <<aiCooldown, startCache, sheet, now, today, deploy, inflight, step, accepted,
    process, history>>

-----------------------------------------------------------------------------
(* Strings                                                                    *)

IsSpace(c) == c = " "

StartsWith(s, p) == Len(s) >= Len(p) /\ SubSeq(s, 1, Len(p)) = p

IncludesAt(s, p, i) == i + Len(p) - 1 <= Len(s) /\ SubSeq(s, i, i + Len(p) - 1) = p

Includes(s, p) == \E i \in 1..(Len(s) + 1) : IncludesAt(s, p, i)

\* String.prototype.trim
RECURSIVE TrimLeft(_)
TrimLeft(s) == IF s # <<>> /\ IsSpace(Head(s)) THEN TrimLeft(Tail(s)) ELSE s

RECURSIVE TrimRight(_)
TrimRight(s) ==
  IF s # <<>> /\ IsSpace(s[Len(s)]) THEN TrimRight(SubSeq(s, 1, Len(s) - 1)) ELSE s

Trim(s) == TrimRight(TrimLeft(s))

\* s.replace(/\s+/g, " "): every run of white space becomes one space
RECURSIVE CollapseSpaces(_)
CollapseSpaces(s) ==
  IF s = <<>> THEN <<>>
  ELSE IF IsSpace(Head(s)) THEN <<" ">> \o CollapseSpaces(TrimLeft(s))
  ELSE <<Head(s)>> \o CollapseSpaces(Tail(s))

\* s.replace(/[c]/g, d) for one character c
MapChar(s, c, d) == [i \in 1..Len(s) |-> IF s[i] = c THEN d ELSE s[i]]

\* s.replaceAll(a, b): leftmost occurrences, left to right, never rescanning b
RECURSIVE ReplaceAll(_, _, _)
ReplaceAll(s, a, b) ==
  IF s = <<>> THEN <<>>
  ELSE IF StartsWith(s, a) THEN b \o ReplaceAll(SubSeq(s, Len(a) + 1, Len(s)), a, b)
  ELSE <<Head(s)>> \o ReplaceAll(Tail(s), a, b)

\* String.prototype.toLowerCase on the letters the vocabulary uses
LowerChar(c) ==
  CASE c = "S" -> "s" [] c = "T" -> "t" [] c = "A" -> "a" [] c = "R" -> "r"
    [] c = "H" -> "h" [] c = "E" -> "e" [] c = "L" -> "l" [] c = "P" -> "p"
    [] OTHER -> c

ToLowerCase(s) == [i \in 1..Len(s) |-> LowerChar(s[i])]

-----------------------------------------------------------------------------
(* Text normalizer and FAQ matcher                                            *)

IsPunct(c) == c \in {"FWC", "FWP", "FWE", "FWQ", "FWD", ",", ".", "!", "?"}

normalizeText(s) ==
  SelectSeq(SelectSeq(ToLowerCase(s), LAMBDA c : ~IsSpace(c)), LAMBDA c : ~IsPunct(c))

rules ==
  << << <<"jin", "tian", "na", "yi", "tian">>, <<"jin", "tian", "shi4", "na", "yi", "tian">> >>,
     << <<"jin", "tian", "na", "tian">>,       <<"jin", "tian", "shi4", "na", "yi", "tian">> >>,
     << <<"ji", "tian">>,                      <<"di", "ji", "tian">> >>,
     << <<"he", "cha">>,                       <<"cha">> >>,
     << <<"ka", "fei", "yin">>,                <<"ka", "fei">> >>,
     << <<"jiu", "jing">>,                     <<"jiu">> >>,
     << <<"shou", "yao", "yin3">>,             <<"yin3", "liao">> >>,
     << <<"zhen", "zhu", "nai", "cha">>,       <<"zhen", "nai">> >> >>

RECURSIVE ApplyRules(_, _)
ApplyRules(t, i) ==
  IF i > Len(rules) THEN t
  ELSE ApplyRules(ReplaceAll(t, rules[i][1], rules[i][2]), i + 1)

applySynonyms(t) == ApplyRules(t, 1)

Min(a, b) == IF a < b THEN a ELSE b

\* Math.ceil(n / 2) for n >= 0
CeilHalf(n) == (n + 1) \div 2

\* One keyword's contribution to an item's score (the loop body, 463-467)
KeywordScore(t, kwRaw) ==
  LET kw == applySynonyms(normalizeText(kwRaw))
  IN  IF kw = <<>> THEN 0
      ELSE IF Includes(t, kw) THEN Min(3, CeilHalf(Len(kw))) ELSE 0

RECURSIVE SumScores(_, _, _)
SumScores(t, kws, i) ==
  IF i > Len(kws) THEN 0 ELSE KeywordScore(t, kws[i]) + SumScores(t, kws, i + 1)

\* The answer of "no match" (null)
NoAnswer == 0

\* A loop in which a later item with the same score replaces the earlier one
RECURSIVE BestOf_LastWins(_, _, _, _, _)
BestOf_LastWins(items, t, i, bestScore, bestAns) ==
  IF i > Len(items) THEN IF bestScore >= 1 THEN bestAns ELSE NoAnswer
  ELSE LET item  == items[i]
           score == SumScores(t, item.keywords, 1)
       IN  IF item.answer = NoAnswer THEN BestOf_LastWins(items, t, i + 1, bestScore, bestAns)
           ELSE IF score >= bestScore THEN BestOf_LastWins(items, t, i + 1, score, item.answer)
           ELSE BestOf_LastWins(items, t, i + 1, bestScore, bestAns)

\* The loop over the items, carrying bestScore and bestAns (458-472)
RECURSIVE BestOf(_, _, _, _, _)
BestOf(items, t, i, bestScore, bestAns) ==
  IF i > Len(items) THEN IF bestScore >= 1 THEN bestAns ELSE NoAnswer
  ELSE LET item  == items[i]
           score == SumScores(t, item.keywords, 1)
       IN  IF item.answer = NoAnswer THEN BestOf(items, t, i + 1, bestScore, bestAns)
           ELSE IF score > bestScore THEN BestOf(items, t, i + 1, score, item.answer)
           ELSE BestOf(items, t, i + 1, bestScore, bestAns)

matchFAQ(items, text) ==
  LET t == applySynonyms(normalizeText(text))
  IN  IF t = <<>> THEN NoAnswer ELSE BestOf(items, t, 1, 0, NoAnswer)

\* knowledge/faq_50.json as loaded: an answer is named by a positive number
faqItems ==
  << [keywords |-> << <<"ka", "fei">>, <<"cha">> >>, answer |-> 1],
     [keywords |-> << <<"jiu">> >>,                  answer |-> 2],
     [keywords |-> << <<"di", "ji", "tian">> >>,     answer |-> 3] >>

-----------------------------------------------------------------------------
(* Vocabulary                                                                 *)

TRIGGER == <<"qing", "wen">>
HASH == <<"#">>

HelpWords ==
  { <<"h", "e", "l", "p">>, <<"bang", "zhu">>, <<"shi3", "yong4", "shuo", "ming">> }
StatusWord == <<"zhuang", "tai">>
DebugWord == <<"d", "e", "b", "u", "g", "-", "s", "t", "a", "r", "t">>
StartWord == <<"kai", "shi">>
StartAscii == <<"s", "t", "a", "r", "t">>
RestartWord == <<"chong", "xin", "kai", "shi">>
MenuWords == { <<"jin", "tian", "cai", "dan">>, <<"jin", "ri", "cai", "dan">> }
WhichDayPhrase == <<"jin", "tian", "shi4", "na", "yi", "tian">>
WhichDayShort == <<"jin", "tian", "shi4", "na", "tian">>
CompanionWords ==
  { <<"pei", "ban", "ti", "xing">>, <<"gu", "li", "wo">>, <<"ti", "xing", "wo">> }

TimeLabels ==
  { <<"0", "7", ":", "4", "5">>, <<"0", "8", ":", "0", "0">>, <<"1", "0", ":", "0", "0">>,
    <<"1", "1", ":", "4", "5">>, <<"1", "2", ":", "0", "0">>, <<"1", "4", ":", "0", "0">>,
    <<"1", "6", ":", "0", "0">>, <<"1", "7", ":", "4", "5">>, <<"1", "8", ":", "0", "0">>,
    <<"2", "0", ":", "0", "0">> }

\* text.match(/(07:45|...|20:00)/): the leftmost label in the text, <<>> for null
RECURSIVE TimeMatchFrom(_, _)
TimeMatchFrom(text, i) ==
  IF i + 4 > Len(text) THEN <<>>
  ELSE IF SubSeq(text, i, i + 4) \in TimeLabels THEN SubSeq(text, i, i + 4)
  ELSE TimeMatchFrom(text, i + 1)

\* A match that takes only a text that is a label and nothing else
timeMatch_Exact(text) == IF text \in TimeLabels THEN text ELSE <<>>

timeMatch(text) == TimeMatchFrom(text, 1)

IsDigit(c) == c \in {"0", "1", "2", "3", "4", "5", "6", "7", "8", "9"}

DigitVal(c) ==
  CASE c = "0" -> 0 [] c = "1" -> 1 [] c = "2" -> 2 [] c = "3" -> 3 [] c = "4" -> 4
    [] c = "5" -> 5 [] c = "6" -> 6 [] c = "7" -> 7 [] c = "8" -> 8 [] OTHER -> 9

\* parseInt(digits, 10)
RECURSIVE ParseInt(_, _)
ParseInt(ds, acc) ==
  IF ds = <<>> THEN acc ELSE ParseInt(Tail(ds), 10 * acc + DigitVal(Head(ds)))

\* No match of the set-day pattern (null)
NoDay == -1

\* text.match(/^第\s*(\d{1,2})\s*天$/) followed by parseInt of its group:
\* the day typed, NoDay when the pattern does not match
manualDayMatch(text) ==
  IF ~StartsWith(text, <<"di">>) THEN NoDay
  ELSE LET r == TrimLeft(Tail(text))
           k == IF Len(r) >= 2 /\ IsDigit(r[1]) /\ IsDigit(r[2]) THEN 2
                ELSE IF Len(r) >= 1 /\ IsDigit(r[1]) THEN 1 ELSE 0
           \* \d{1,2} is greedy and gives a digit back only if that makes the
           \* rest match, which it never does: a digit is neither \s nor 天
           rest == TrimLeft(SubSeq(r, k + 1, Len(r)))
       IN  IF k >= 1 /\ rest = <<"tian">> THEN ParseInt(SubSeq(r, 1, k), 0) ELSE NoDay

-----------------------------------------------------------------------------
(* Program clock and knowledge tables                                         *)

\* A calendar date is its day number; NoDate is null / "(none)"
NoDate == 0

\* A text of the form dddd-dd-dd that names no calendar date ("2025-13-01")
BadDate == -1

\* new Date(iso + "T00:00:00") is a valid Date
IsDate(iso) == iso # NoDate /\ iso # BadDate

\* The date of the first event, and how many midnights pass after it
Today0 == 100
MaxDaysElapsed == 2

\* Start dates the store may hold: later than every today, 44 days and more
\* than 45 days before the first event
FutureStart == Today0 + MaxDaysElapsed + 1
Day44Start == Today0 - 43
LongAgoStart == Today0 - 46

MinDay == 1
MaxDay == 45

\* Time is counted in hours here (the code's milliseconds / 3600000)
HoursPerDay == 24

\* The date on which the clocks of a daylight-saving zone go forward one hour:
\* two days before the first event ("dst"), or the day after it ("dst_ahead")
SpringForward == IF deploy.tz = "dst_ahead" THEN Today0 + 1 ELSE Today0 - 2

\* new Date(iso + "T00:00:00").getTime(): the instant of LOCAL midnight of the
\* date; after the clocks went forward local midnight comes one hour earlier
LocalMidnight(iso) ==
  iso * HoursPerDay - (IF deploy.tz # "utc" /\ iso > SpringForward THEN 1 ELSE 0)

\* Math.floor((today.getTime() - start.getTime()) / (1000 * 60 * 60 * 24))
daysBetweenISO(startISO, todayISO) ==
  (LocalMidnight(todayISO) - LocalMidnight(startISO)) \div HoursPerDay

\* A clamp without the upper limit
clampDay_NoUpper(day) == IF day < MinDay THEN MinDay ELSE day

clampDay(day) == IF day < MinDay THEN MinDay ELSE IF day > MaxDay THEN MaxDay ELSE day

\* start.setDate(start.getDate() - (inputDay - 1)) on the local calendar
\* fields of today's midnight, read back as a date
buildStartISOFromDayInput(inputDay, todayISO) == todayISO - (inputDay - 1)

\* The day of getCurrentDayAndTypeFromStartISO_ (the type is resolveDayType of it)
currentDay(startISO, todayISO) == clampDay(daysBetweenISO(startISO, todayISO) + 1)

\* knowledge/day_type_map.json with the "SLIM" default of resolveDayType
resolveDayType(day) ==
  CASE day = 1 -> "PREP" [] day \in 2..4 -> "PROTEIN_CONSECUTIVE" [] OTHER -> "SLIM"

\* knowledge/menu_details_by_day_type.json: which (day type, slot) has content
HasSlot(dayType, label) ==
  \/ dayType = "PREP" /\ label = <<"0", "8", ":", "0", "0">>
  \/ dayType = "SLIM" /\ label \in TimeLabels \ { <<"2", "0", ":", "0", "0">> }

-----------------------------------------------------------------------------
(* Events, conversations and deployments                                      *)

Source(type, userId, groupId, roomId) ==
  [type |-> type, userId |-> userId, groupId |-> groupId, roomId |-> roomId]

UserSrc == Source("user", "U1", "", "")
GroupSrc == Source("group", "U1", "C1", "")
RoomSrc == Source("room", "U1", "", "R1")

\* A conversation named by the sender alone, whatever the kind of the source
getTarget__BySender(event) == [targetType |-> "user", targetId |-> event.src.userId]

getTarget_(event) ==
  LET src == event.src
  IN  IF src.type = "group" THEN [targetType |-> "group", targetId |-> src.groupId]
      ELSE IF src.type = "room" THEN [targetType |-> "room", targetId |-> src.roomId]
      ELSE [targetType |-> "user", targetId |-> src.userId]

cacheKey_(targetType, targetId) == <<targetType, targetId>>

KeyOf(event) == cacheKey_(getTarget_(event).targetType, getTarget_(event).targetId)

TargetIds == {"U1", "C1", "R1"}
CacheKeys == { <<"user", "U1">>, <<"group", "C1">>, <<"room", "R1">> }

TextEvent(src, text) == [type |-> "message", mtype |-> "text", src |-> src, text |-> text]
ImageEvent(src) == [type |-> "message", mtype |-> "image", src |-> src, text |-> <<>>]
FollowEvent(src) == [type |-> "follow", mtype |-> "none", src |-> src, text |-> <<>>]
NoEvent == [type |-> "none", mtype |-> "none", src |-> Source("none", "", "", ""), text |-> <<>>]

\* Malformed elements of a batch: one that is not an object (null), and a text
\* message whose message.text is not a string
NullEvent == [type |-> "null", mtype |-> "none", src |-> Source("none", "", "", ""), text |-> <<>>]
NotAString == <<"NaS">>
BadTextEvent(src) == TextEvent(src, NotAString)

\* event?.replyToken
HasReplyToken(ev) == ev.type \notin {"null", "none"}

\* The texts of the traffic
T_ask == TRIGGER \o <<"chang">>
T_askWhichDay == TRIGGER \o WhichDayPhrase
T_askFaq == TRIGGER \o <<"ka", "fei">>
T_faq == <<"ka", "fei", "yin">>
T_other == <<"h", "i">>
T_setDay5 == <<"di", "5", "tian">>
T_menu == <<"jin", "tian", "cai", "dan">>
T_slot == <<"0", "8", ":", "0", "0">>
T_help == <<"h", "e", "l", "p">>
T_setDay0 == <<"di", "0", "tian">>
T_setDay46 == <<"di", "4", "6", "tian">>
T_setDay100 == <<"di", "1", "0", "0", "tian">>
T_companion == <<"pei", "ban", "ti", "xing">>
T_slotChat == <<"0", "8", ":", "0", "0", " ", "zao", "can">>
Hash(text) == HASH \o text

\* A deployment: the revision of the handler that runs, the configuration in
\* process.env, the time zone of the host ("utc": no daylight saving, "dst": a
\* zone with daylight saving), and the traffic the webhook delivers to it
Deployment(load, rev, vectorStore, gas, tz) ==
  [load |-> load, rev |-> rev, vectorStore |-> vectorStore, gas |-> gas, tz |-> tz]

Deployments ==
  { Deployment("ai", "full", TRUE, TRUE, "utc"),
    Deployment("ai", "full", FALSE, TRUE, "utc"),
    Deployment("resolver", "full", TRUE, TRUE, "utc"),
    Deployment("ai", "faqFirst", TRUE, TRUE, "utc"),
    Deployment("program", "full", TRUE, TRUE, "utc"),
    Deployment("program", "full", TRUE, FALSE, "utc"),
    Deployment("days", "full", TRUE, TRUE, "utc"),
    Deployment("program", "full", TRUE, FALSE, "dst"),
    Deployment("clock", "full", TRUE, TRUE, "utc"),
    Deployment("clock", "full", TRUE, TRUE, "dst_ahead"),
    Deployment("batch", "full", TRUE, TRUE, "utc") }

Traffic(load) ==
  CASE load = "ai" ->
         { TextEvent(UserSrc, T_ask), TextEvent(UserSrc, TRIGGER),
           TextEvent(UserSrc, T_askFaq), TextEvent(UserSrc, T_faq),
           TextEvent(GroupSrc, Hash(T_ask)), TextEvent(GroupSrc, T_ask) }
    [] load = "resolver" ->
         { TextEvent(UserSrc, T_askWhichDay), TextEvent(UserSrc, T_askFaq),
           TextEvent(UserSrc, T_faq), TextEvent(UserSrc, T_other),
           TextEvent(UserSrc, T_help), TextEvent(UserSrc, WhichDayPhrase),
           TextEvent(UserSrc, <<" ">> \o Hash(T_faq)),
           TextEvent(GroupSrc, Hash(T_faq)), TextEvent(GroupSrc, T_faq),
           TextEvent(GroupSrc, <<" ">> \o Hash(<<" ">> \o T_other)),
           TextEvent(GroupSrc, HASH), TextEvent(GroupSrc, Hash(<<" ", " ">>)),
           TextEvent(RoomSrc, T_help), TextEvent(RoomSrc, Hash(T_help)),
           ImageEvent(UserSrc), FollowEvent(GroupSrc) }
    [] load = "clock" ->
         { TextEvent(UserSrc, T_menu), TextEvent(UserSrc, T_companion),
           TextEvent(UserSrc, T_slot), TextEvent(UserSrc, T_slotChat) }
    [] load = "batch" ->
         { TextEvent(UserSrc, T_ask), TextEvent(UserSrc, T_other),
           TextEvent(GroupSrc, Hash(T_menu)), BadTextEvent(UserSrc), NullEvent }
    [] load = "days" ->
         { TextEvent(UserSrc, T_setDay0), TextEvent(UserSrc, T_setDay46),
           TextEvent(UserSrc, T_setDay100), TextEvent(UserSrc, T_menu),
           TextEvent(UserSrc, T_companion), TextEvent(UserSrc, T_slot) }
    [] OTHER ->
         { TextEvent(UserSrc, StartWord), TextEvent(UserSrc, RestartWord),
           TextEvent(UserSrc, T_setDay5), TextEvent(UserSrc, T_menu),
           TextEvent(UserSrc, DebugWord),
           TextEvent(GroupSrc, Hash(StartWord)), TextEvent(GroupSrc, StartWord) }

-----------------------------------------------------------------------------
(* The resolver: which branch of handleEvent a message takes                  *)

\* text = (event.message.text || "").trim(), then the UX normalisation
inputText(raw) == Trim(CollapseSpaces(MapChar(Trim(raw), "FWQ", "?")))

\* A filter that lets "#" with nothing after it through to the resolver
scopeFilter_KeepEmpty(targetType, text) ==
  LET multi == targetType = "group" \/ targetType = "room"
  IN  IF multi /\ ~StartsWith(text, HASH) THEN [drop |-> TRUE, text |-> <<>>]
      ELSE IF multi THEN [drop |-> FALSE, text |-> Trim(Tail(text))]
      ELSE [drop |-> FALSE, text |-> text]

\* A filter that strips the "#" and keeps the white space after it
scopeFilter_NoTrim(targetType, text) ==
  LET multi == targetType = "group" \/ targetType = "room"
  IN  IF multi /\ ~StartsWith(text, HASH) THEN [drop |-> TRUE, text |-> <<>>]
      ELSE IF multi THEN [drop |-> Trim(Tail(text)) = <<>>, text |-> Tail(text)]
      ELSE [drop |-> FALSE, text |-> text]

\* Groups and rooms accept only "#" commands: the text the resolver sees, or drop
scopeFilter(targetType, text) ==
  LET multi == targetType = "group" \/ targetType = "room"
  IN  IF multi /\ ~StartsWith(text, HASH) THEN [drop |-> TRUE, text |-> <<>>]
      ELSE IF multi /\ StartsWith(text, HASH)
        THEN LET stripped == Trim(Tail(text))
             IN  [drop |-> stripped = <<>>, text |-> stripped]
      ELSE [drop |-> FALSE, text |-> text]

\* text.replace(/^請問\s*/, "").trim() of a text that starts with the trigger
questionOf(text) == Trim(SubSeq(text, Len(TRIGGER) + 1, Len(text)))

\* A branch of the resolver with what it took from the text: the text after
\* the scope filter, the day typed, the time label, the FAQ answer
Routed(branch, text, day, label, faqAns) ==
  [branch |-> branch, text |-> text, day |-> day, label |-> label, faqAns |-> faqAns]

\* The conditions of handleEvent after the AI branch (index.js 669-793) in the
\* order of the code
ResolveCommands(text) ==
  IF text \in HelpWords THEN Routed("help", text, 0, <<>>, NoAnswer)
  ELSE IF text = StatusWord THEN Routed("status", text, 0, <<>>, NoAnswer)
  ELSE IF text = DebugWord THEN Routed("debug", text, 0, <<>>, NoAnswer)
  ELSE IF text = StartWord \/ ToLowerCase(text) = StartAscii
    THEN Routed("start", text, 0, <<>>, NoAnswer)
  ELSE IF text = RestartWord THEN Routed("restart", text, 0, <<>>, NoAnswer)
  ELSE IF manualDayMatch(text) # NoDay
    THEN LET inputDay == manualDayMatch(text)
         IN  IF inputDay < MinDay \/ inputDay > MaxDay
             THEN Routed("range", text, inputDay, <<>>, NoAnswer)
             ELSE Routed("setday", text, inputDay, <<>>, NoAnswer)
  ELSE IF text \in MenuWords \/ Includes(text, WhichDayPhrase) \/ text = WhichDayShort
    THEN Routed("menu", text, 0, <<>>, NoAnswer)
  ELSE IF text \in CompanionWords THEN Routed("companion", text, 0, <<>>, NoAnswer)
  ELSE IF timeMatch(text) # <<>> THEN Routed("slot", text, 0, timeMatch(text), NoAnswer)
  ELSE LET faqAns == matchFAQ(faqItems, text)
       IN  IF faqAns # NoAnswer THEN Routed("faq", text, 0, <<>>, faqAns)
           ELSE Routed("fallback", text, 0, <<>>, NoAnswer)

\* A resolver that tries the commands before the trigger phrase
Resolve_CommandsFirst(text) ==
  LET r == ResolveCommands(text)
  IN  IF r.branch \in {"faq", "fallback"} /\ StartsWith(text, TRIGGER)
      THEN Routed("ai", text, 0, <<>>, NoAnswer) ELSE r

\* A resolver that tries the FAQ before the trigger phrase
Resolve_FaqBeforeTrigger(text) ==
  LET faqAns == matchFAQ(faqItems, text)
  IN  IF faqAns # NoAnswer /\ StartsWith(text, TRIGGER) THEN Routed("faq", text, 0, <<>>, faqAns)
      ELSE IF StartsWith(text, TRIGGER) THEN Routed("ai", text, 0, <<>>, NoAnswer)
      ELSE ResolveCommands(text)

\* The conditions of handleEvent (index.js 641-793): the AI branch, then the rest
Resolve(text) ==
  IF StartsWith(text, TRIGGER) THEN Routed("ai", text, 0, <<>>, NoAnswer)
  ELSE ResolveCommands(text)

\* The conditions of the FAQ-first revision (index.js 228-257)
ResolveFaqFirst(text) ==
  LET faqAns == matchFAQ(faqItems, text)
  IN  IF faqAns # NoAnswer THEN Routed("faq", text, 0, <<>>, faqAns)
      ELSE IF StartsWith(text, TRIGGER) THEN Routed("ai", text, 0, <<>>, NoAnswer)
      ELSE Routed("guide", text, 0, <<>>, NoAnswer)

\* handleEvent from its entry to the resolver (index.js 620-639)
Route(ev) ==
  IF ev.type = "null" THEN Routed("malformed", <<>>, 0, <<>>, NoAnswer)
  ELSE IF ev.type # "message" \/ ev.mtype # "text" THEN Routed("ignored", <<>>, 0, <<>>, NoAnswer)
  ELSE IF ev.text = NotAString THEN Routed("malformed", <<>>, 0, <<>>, NoAnswer)
  ELSE LET sc == scopeFilter(getTarget_(ev).targetType, inputText(ev.text))
       IN  IF sc.drop THEN Routed("dropped", <<>>, 0, <<>>, NoAnswer) ELSE Resolve(sc.text)

\* The same of the FAQ-first revision (index.js 213-226)
RouteFaqFirst(ev) ==
  IF ev.type = "null" THEN Routed("malformed", <<>>, 0, <<>>, NoAnswer)
  ELSE IF ev.type # "message" \/ ev.mtype # "text" THEN Routed("ignored", <<>>, 0, <<>>, NoAnswer)
  ELSE IF ev.text = NotAString THEN Routed("malformed", <<>>, 0, <<>>, NoAnswer)
  ELSE LET sc == scopeFilter(getTarget_(ev).targetType, inputText(ev.text))
       IN  IF sc.drop THEN Routed("dropped", <<>>, 0, <<>>, NoAnswer)
           ELSE ResolveFaqFirst(sc.text)

\* The texts the equivalences of the scope filter are probed with
ProbeTexts ==
  { T_ask, TRIGGER, T_askFaq, T_faq, T_other, T_help, T_menu, T_slot, T_setDay5,
    StartWord, RestartWord, DebugWord, StatusWord, <<" ">> \o T_menu, Hash(T_menu),
    <<>>, <<" ">> }

AllEvents ==
  UNION { Traffic(load) : load \in {"ai", "resolver", "program", "days", "clock", "batch"} }
    \cup { TextEvent(src, text) : src \in {UserSrc}, text \in ProbeTexts }
    \cup { TextEvent(src, Hash(text)) : src \in {GroupSrc, RoomSrc}, text \in ProbeTexts }

\* Route of every event, resolved once
RouteTable == [ev \in AllEvents |-> Route(ev)]
RouteTableFaqFirst == [ev \in AllEvents |-> RouteFaqFirst(ev)]

-----------------------------------------------------------------------------
(* Replies and handler records                                                *)

\* One replyText call: the kind of text, and the values interpolated into it
Reply(kind, n, m, x) == [kind |-> kind, n |-> n, m |-> m, x |-> x]

\* A handler suspended at an await: its event, where it waits, its locals
Cont(ev, pc, n, m) == [ev |-> ev, pc |-> pc, n |-> n, m |-> m, sends |-> 0]
Idle == Cont(NoEvent, "idle", 0, 0)

\* What one run of handler code, from an entry or resume point to the next
\* await or to the end, does
Result(cd, cache, sent, cont, gate, backend, faq, wrote) ==
  [cd |-> cd, cache |-> cache, sent |-> sent, cont |-> cont, gate |-> gate,
   backend |-> backend, faq |-> faq, wrote |-> wrote]

-----------------------------------------------------------------------------
(* Bounds and module constants                                                *)

MaxInFlight == 2
MaxTicks == 2
TickMs == 10000
NowBase == 50000
OldStart == Today0 - 4

Slots == 1..MaxInFlight
MaxNow == NowBase + MaxTicks * TickMs

COOLDOWN_MS == 20000

SetCache(cache, key, date) == [cache EXCEPT ![key] = date]

\* A run that sends nothing and touches nothing (an early return)
Quiet == Result(aiCooldown, startCache, <<>>, Idle, "none", FALSE, FALSE, NoDate)

\* A run that only replies
Say(reply, faq) == Result(aiCooldown, startCache, <<reply>>, Idle, "none", FALSE, faq, NoDate)

\* A run that suspends without having changed anything
Await(cont) == Result(aiCooldown, startCache, <<>>, cont, "none", FALSE, FALSE, NoDate)

-----------------------------------------------------------------------------
(* handleEvent up to its first await                                          *)

\* A gate that leaves the timestamp to be set after the backend has answered
AiGate_StampAfterAnswer(cd, targetId, t, text) ==
  LET last == cd[targetId]
  IN  IF t - last < COOLDOWN_MS THEN [verdict |-> "wait", cd |-> cd]
      ELSE IF questionOf(text) = <<>> THEN [verdict |-> "hint", cd |-> [cd EXCEPT ![targetId] = t]]
      ELSE [verdict |-> "ask", cd |-> cd]

\* A gate that restarts the window on a rejected request
AiGate_StampOnReject(cd, targetId, t, text) ==
  LET last == cd[targetId]
  IN  IF t - last < COOLDOWN_MS THEN [verdict |-> "wait", cd |-> [cd EXCEPT ![targetId] = t]]
      ELSE [verdict |-> IF questionOf(text) = <<>> THEN "hint" ELSE "ask",
            cd |-> [cd EXCEPT ![targetId] = t]]

\* The cooldown check, the update of the timestamp and the empty-question
\* check, in the order of the code
AiGate(cd, targetId, t, text) ==
  LET last == cd[targetId]
  IN  IF t - last < COOLDOWN_MS THEN [verdict |-> "wait", cd |-> cd]
      ELSE [verdict |-> IF questionOf(text) = <<>> THEN "hint" ELSE "ask",
            cd |-> [cd EXCEPT ![targetId] = t]]

\* The AI branch up to "await aiAnswer(question)"; aiAnswer returns at once
\* when OPENAI_VECTOR_STORE_ID is missing
AiBranch(ev, text, t, faq) ==
  LET g == AiGate(aiCooldown, getTarget_(ev).targetId, t, text)
  IN  CASE g.verdict = "wait" ->
             Result(g.cd, startCache, <<Reply("wait", 0, 0, <<>>)>>, Idle, "wait", FALSE, faq, NoDate)
        [] g.verdict = "hint" ->
             Result(g.cd, startCache, <<Reply("hint", 0, 0, <<>>)>>, Idle, "hint", FALSE, faq, NoDate)
        [] OTHER ->
             IF deploy.vectorStore
             THEN Result(g.cd, startCache, <<>>, Cont(ev, "ai", t, 0), "ask", TRUE, faq, NoDate)
             ELSE Result(g.cd, startCache, <<Reply("ai_noconf", 0, 0, <<>>)>>, Idle, "ask", FALSE, faq, NoDate)

\* The reply after "await upsertTargetToSheet(...)": n is the date written,
\* m the day typed
UpsertReply(pc, n, m) ==
  CASE pc = "start_upsert" -> Reply("started", currentDay(n, today), 0, <<>>)
    [] pc = "restart_upsert" -> Reply("restarted", 0, 0, <<>>)
    [] OTHER -> Reply("aligned", m, 0, <<>>)

\* startCache.set(key, date); await upsertTargetToSheet(...); reply.
\* Without GAS_URL/GAS_KEY the upsert returns at once.
CommandWrite(ev, cache, pc, date, m) ==
  LET cache2 == SetCache(cache, KeyOf(ev), date)
  IN  IF deploy.gas
      THEN Result(aiCooldown, cache2, <<>>, Cont(ev, pc, date, m), "none", FALSE, FALSE, date)
      ELSE Result(aiCooldown, cache2, <<UpsertReply(pc, date, m)>>, Idle, "none", FALSE, FALSE, date)

\* A branch that starts the program by itself when there is no start date
AfterEnsure_AutoStart(ev, pc, existing, cache) ==
  IF existing = NoDate THEN CommandWrite(ev, cache, "start_upsert", today, 0)
  ELSE Result(aiCooldown, cache, <<Reply(pc, currentDay(existing, today), 0, <<>>)>>, Idle,
              "none", FALSE, FALSE, NoDate)

\* The branch of a command that called ensureStartISO, from the point where
\* ensureStartISO has returned `existing` and left the cache as `cache`
AfterEnsure(ev, pc, existing, cache) ==
  LET day == currentDay(existing, today)
      label == RouteTable[ev].label
      only(reply) == Result(aiCooldown, cache, <<reply>>, Idle, "none", FALSE, FALSE, NoDate)
  IN  CASE existing = BadDate ->
             \* getCurrentDayAndTypeFromStartISO_ returns null (day is NaN) and
             \* cur.day throws: the catch block answers
             only(Reply("error", 0, 0, <<>>))
        [] pc = "start" ->
             IF existing # NoDate THEN only(Reply("already", day, 0, <<>>))
             ELSE CommandWrite(ev, cache, "start_upsert", today, 0)
        [] pc = "menu" ->
             IF existing = NoDate THEN only(Reply("needstart_menu", 0, 0, <<>>))
             ELSE only(Reply("menu", day, 0, <<>>))
        [] pc = "companion" ->
             IF existing = NoDate THEN only(Reply("needstart", 0, 0, <<>>))
             ELSE only(Reply("companion", day, 0, <<>>))
        [] OTHER ->
             IF existing = NoDate THEN only(Reply("needstart", 0, 0, <<>>))
             ELSE IF ~HasSlot(resolveDayType(day), label) THEN only(Reply("slot_none", day, 0, <<>>))
             ELSE only(Reply("slot", day, 0, label))

\* An ensureStartISO that goes to the store whatever the cache holds
EnsureThen_AlwaysRead(ev, pc) ==
  IF ~deploy.gas THEN AfterEnsure(ev, pc, NoDate, startCache)
  ELSE Await(Cont(ev, pc, 0, 0))

\* ensureStartISO up to its await: the cached date when there is one; without
\* GAS_URL/GAS_KEY getStartISOFromSheet returns null at once
EnsureThen(ev, pc) ==
  LET inMem == startCache[KeyOf(ev)]
  IN  IF inMem # NoDate THEN AfterEnsure(ev, pc, inMem, startCache)
      ELSE IF ~deploy.gas THEN AfterEnsure(ev, pc, NoDate, startCache)
      ELSE Await(Cont(ev, pc, 0, 0))

\* The debug-start reply: today, the conversation, the cached and the stored date
DebugReply(ev, mem, fromSheet) ==
  Reply("debug", mem, fromSheet, <<getTarget_(ev).targetType, getTarget_(ev).targetId>>)

DebugThen(ev) ==
  LET mem == startCache[KeyOf(ev)]
  IN  IF ~deploy.gas THEN Say(DebugReply(ev, mem, NoDate), FALSE)
      ELSE Await(Cont(ev, "debug", mem, 0))

\* The catch block (794-804): the apology, when the event has a replyToken
Caught(ev) == IF HasReplyToken(ev) THEN Say(Reply("error", 0, 0, <<>>), FALSE) ELSE Quiet

\* handleEvent of the full revision (index.js 618-805), to its first await
handleEvent(ev, t) ==
  LET rt == RouteTable[ev]
      b == rt.branch
  IN  CASE b = "ignored" \/ b = "dropped" -> Quiet
        [] b = "malformed" -> Caught(ev)
        [] b = "ai" -> AiBranch(ev, rt.text, t, FALSE)
        [] b = "help" -> Say(Reply("help", 0, 0, <<>>), FALSE)
        [] b = "status" -> Say(Reply("status", today, 0, <<>>), FALSE)
        [] b = "debug" -> DebugThen(ev)
        [] b = "start" -> EnsureThen(ev, "start")
        [] b = "restart" -> CommandWrite(ev, startCache, "restart_upsert", today, 0)
        [] b = "range" -> Say(Reply("range", 0, 0, <<>>), FALSE)
        [] b = "setday" -> CommandWrite(ev, startCache, "setday_upsert",
                                        buildStartISOFromDayInput(rt.day, today), rt.day)
        [] b \in {"menu", "companion", "slot"} -> EnsureThen(ev, b)
        [] b = "faq" -> Say(Reply("faq", rt.faqAns, 0, <<>>), TRUE)
        [] OTHER -> Say(Reply("fallback", 0, 0, <<>>), TRUE)

\* handleEvent of the FAQ-first revision (index.js 211-266), to its first await
handleEventFaqFirst(ev, t) ==
  LET rt == RouteTableFaqFirst[ev]
      b == rt.branch
  IN  CASE b = "ignored" \/ b = "dropped" -> Quiet
        [] b = "malformed" -> Caught(ev)
        [] b = "faq" -> Say(Reply("faq", rt.faqAns, 0, <<>>), TRUE)
        [] b = "ai" -> AiBranch(ev, rt.text, t, TRUE)
        [] OTHER -> Say(Reply("guide", 0, 0, <<>>), TRUE)

-----------------------------------------------------------------------------
(* handleEvent from an await to the next one or to the end                    *)

BackendOutcomes == {"text", "empty", "rate_limit", "error"}
FetchOutcomes == {"ok", "fail"}

\* A read of the store also may answer with a text that is no date at all
ReadOutcomes == FetchOutcomes \cup {"malformed"}

\* A backend fault that is answered twice: a reply from the try block and the
\* apology from the catch block
AfterAi_ReplyThenApology(c, outcome) ==
  LET said == CASE outcome = "text" -> <<Reply("ai_answer", 0, 0, <<>>)>>
                [] outcome = "empty" -> <<Reply("ai_empty", 0, 0, <<>>)>>
                [] outcome = "rate_limit" -> <<Reply("ai_busy", 0, 0, <<>>)>>
                [] OTHER -> <<Reply("ai_empty", 0, 0, <<>>), Reply("error", 0, 0, <<>>)>>
  IN  Result(aiCooldown, startCache, said, Idle, "none", FALSE, FALSE, NoDate)

\* A gateway that rethrows the rate-limit failure like any other
AfterAi_RateLimitThrows(c, outcome) ==
  LET kind == CASE outcome = "text" -> "ai_answer"
                [] outcome = "empty" -> "ai_empty"
                [] OTHER -> "error"
  IN  Result(aiCooldown, startCache, <<Reply(kind, 0, 0, <<>>)>>, Idle, "none", FALSE, FALSE, NoDate)

\* A gateway that gives the cooldown slot back when the backend call failed
AfterAi_RollbackOnFailure(c, outcome) ==
  LET kind == CASE outcome = "text" -> "ai_answer"
                [] outcome = "empty" -> "ai_empty"
                [] outcome = "rate_limit" -> "ai_busy"
                [] OTHER -> "error"
      cd == IF outcome \in {"rate_limit", "error"}
            THEN [aiCooldown EXCEPT ![getTarget_(c.ev).targetId] = 0] ELSE aiCooldown
  IN  Result(cd, startCache, <<Reply(kind, 0, 0, <<>>)>>, Idle, "none", FALSE, FALSE, NoDate)

\* After "await aiAnswer(question)": the answer, the fixed text for an empty
\* answer, the retry message for a 429, or the catch block's apology
AfterAi(c, outcome) ==
  LET kind == CASE outcome = "text" -> "ai_answer"
                [] outcome = "empty" -> "ai_empty"
                [] outcome = "rate_limit" -> "ai_busy"
                [] OTHER -> "error"
  IN  Result(aiCooldown, startCache, <<Reply(kind, 0, 0, <<>>)>>, Idle, "none", FALSE, FALSE, NoDate)

\* getStartISOFromSheet: the stored text when it has the form of a date, null
\* for a failed fetch and for any other text
getStartISOFromSheet(key, outcome) == IF outcome = "ok" THEN sheet[key] ELSE NoDate

\* ensureStartISO after its await (570-575), then the command that called it
AfterSheetRead(c, outcome) ==
  LET key == KeyOf(c.ev)
      fromSheet == getStartISOFromSheet(key, outcome)
      cache == IF fromSheet # NoDate THEN SetCache(startCache, key, fromSheet) ELSE startCache
  IN  AfterEnsure(c.ev, c.pc, fromSheet, cache)

\* debug-start after its await (682-692)
AfterDebugRead(c, outcome) ==
  LET key == KeyOf(c.ev)
      fromSheet == getStartISOFromSheet(key, outcome)
      cache == IF fromSheet # NoDate THEN SetCache(startCache, key, fromSheet) ELSE startCache
  IN  Result(aiCooldown, cache, <<DebugReply(c.ev, c.n, fromSheet)>>, Idle, "none", FALSE, FALSE, NoDate)

\* The store after upsertTargetToSheet: the date written, unless the fetch failed
AfterUpsertSheet(c, outcome) ==
  IF outcome = "ok" THEN [sheet EXCEPT ![KeyOf(c.ev)] = c.n] ELSE sheet

\* start, restart and set-day after "await upsertTargetToSheet(...)"
AfterUpsert(c, outcome) ==
  Result(aiCooldown, startCache, <<UpsertReply(c.pc, c.n, c.m)>>, Idle, "none", FALSE, FALSE, NoDate)

-----------------------------------------------------------------------------
(* Actions                                                                    *)

\* Whether the LINE API may reject a reply, and how the send of a run ends
SendMayFail == deploy.load = "batch"

SendOutcomes(r) ==
  IF r.sent = <<>> THEN {"none"} ELSE IF SendMayFail THEN {"ok", "fail"} ELSE {"ok"}

\* The handler's promise is rejected when a reply of the try block fails: it
\* is returned, not awaited; a failed apology is caught (796-802)
Rejects(r, send) == send = "fail" /\ r.sent[1].kind # "error"

\* A webhook that leaves the rejection of a handler unhandled
AfterSettled_Unhandled(rejected) == IF rejected THEN "exited" ELSE "running"

\* Promise.allSettled(events.map(handleEvent)).then(...): a rejected handler
\* is logged
AfterSettled(rejected) == "running"

StepOf(ev, phase, outcome, r, sendsBefore, t, prev, send) ==
  [ev |-> ev, phase |-> phase, outcome |-> outcome, sent |-> r.sent, sends |-> sendsBefore + Len(r.sent),
   done |-> r.cont = Idle, gate |-> r.gate, backend |-> r.backend, faq |-> r.faq,
   wrote |-> r.wrote, t |-> t, prev |-> prev, send |-> send, rejected |-> Rejects(r, send)]

NoHistory ==
  [failedAsk |-> [id \in TargetIds |-> 0], storeFailed |-> FALSE,
   commanded |-> [k \in CacheKeys |-> NoDate]]

\* The history after a run: the arrival time of an accepted request whose
\* backend call failed, whether a store call has failed, the date a command
\* last put in the cache
HistoryAfter(ev, phase, outcome, r, s) ==
  [failedAsk |->
     IF phase = "ai" /\ outcome \in {"rate_limit", "error"}
     THEN [history.failedAsk EXCEPT ![getTarget_(ev).targetId] = inflight[s].n]
     ELSE history.failedAsk,
   storeFailed |-> history.storeFailed \/ (phase \in {"read", "upsert"} /\ outcome # "ok"),
   commanded |->
     IF r.wrote # NoDate THEN [history.commanded EXCEPT ![KeyOf(ev)] = r.wrote]
     ELSE history.commanded]

NoResult == Result(aiCooldown, startCache, <<>>, Idle, "none", FALSE, FALSE, NoDate)

FreeSlots == {s \in Slots : inflight[s] = Idle}
FirstFree == CHOOSE s \in FreeSlots : \A s2 \in FreeSlots : s <= s2

ClockReadings == {now + k * TickMs : k \in 0..MaxTicks}

\* The effect of a run r of the handler of ev that started in slot s (0: a new
\* handler) and read the clock as t; outcome is how the awaited call ended
Apply(ev, phase, outcome, r, s, t) ==
  LET id == getTarget_(ev).targetId
      before == IF s = 0 THEN 0 ELSE inflight[s].sends
      cont == [r.cont EXCEPT !.sends = before + Len(r.sent)]
      freed == IF s = 0 THEN inflight ELSE [inflight EXCEPT ![s] = Idle]
  IN  /\ process = "running"
      /\ r.cont # Idle /\ s = 0 => FreeSlots # {}
      /\ aiCooldown' = r.cd
      /\ startCache' = r.cache
      /\ inflight' = IF r.cont = Idle THEN freed
                     ELSE IF s = 0 THEN [inflight EXCEPT ![FirstFree] = cont]
                     ELSE [inflight EXCEPT ![s] = cont]
      /\ now' = IF r.gate # "none" THEN t ELSE now
      /\ accepted' = IF r.gate = "ask" THEN [accepted EXCEPT ![id] = t] ELSE accepted
      /\ \E send \in SendOutcomes(r) :
           /\ step' = StepOf(ev, phase, outcome, r, before, IF r.gate # "none" THEN t ELSE now,
                             IF s = 0 /\ id \in TargetIds THEN accepted[id] ELSE 0, send)
           /\ process' = AfterSettled(Rejects(r, send))
      /\ history' = HistoryAfter(ev, phase, outcome, r, s)
      /\ UNCHANGED <<today, deploy>>

\* The webhook hands an event to handleEvent, which runs to its first await
Receive(ev, t) ==
  /\ deploy.rev = "full"
  /\ t <= MaxNow
  /\ RouteTable[ev].branch # "ai" => t = now
  /\ Apply(ev, "receive", "none", handleEvent(ev, t), 0, t)
  /\ UNCHANGED sheet

ReceiveFaqFirst(ev, t) ==
  /\ deploy.rev = "faqFirst"
  /\ t <= MaxNow
  /\ RouteTableFaqFirst[ev].branch # "ai" => t = now
  /\ Apply(ev, "receive", "none", handleEventFaqFirst(ev, t), 0, t)
  /\ UNCHANGED sheet

\* The backend call of a suspended handler returns or fails
ResumeAi(s, outcome) ==
  /\ inflight[s].pc = "ai"
  /\ Apply(inflight[s].ev, "ai", outcome, AfterAi(inflight[s], outcome), s, now)
  /\ UNCHANGED sheet

\* The store read of ensureStartISO returns or fails
ResumeEnsure(s, outcome) ==
  /\ inflight[s].pc \in {"start", "menu", "companion", "slot"}
  /\ Apply(inflight[s].ev, "read", outcome, AfterSheetRead(inflight[s], outcome), s, now)
  /\ UNCHANGED sheet

\* The store read of debug-start returns or fails
ResumeDebug(s, outcome) ==
  /\ inflight[s].pc = "debug"
  /\ Apply(inflight[s].ev, "read", outcome, AfterDebugRead(inflight[s], outcome), s, now)
  /\ UNCHANGED sheet

\* The store write of a start, restart or set-day command returns or fails
ResumeUpsert(s, outcome) ==
  /\ inflight[s].pc \in {"start_upsert", "restart_upsert", "setday_upsert"}
  /\ Apply(inflight[s].ev, "upsert", outcome, AfterUpsert(inflight[s], outcome), s, now)
  /\ sheet' = AfterUpsertSheet(inflight[s], outcome)

InitSheets(d) ==
  IF d.load \in {"program", "days"} /\ d.gas
  THEN { [k \in CacheKeys |-> IF k = <<"user", "U1">> THEN date ELSE NoDate] :
           date \in {NoDate, OldStart, BadDate} }
  ELSE IF d.load = "clock"
  THEN { [k \in CacheKeys |-> IF k = <<"user", "U1">> THEN date ELSE NoDate] :
           date \in {FutureStart, OldStart, Day44Start, LongAgoStart} }
  ELSE { [k \in CacheKeys |-> NoDate] }

\* Midnight in Taipei: getTodayISO_TW() returns the next date from now on
Midnight ==
  /\ deploy.load = "clock"
  /\ today < Today0 + MaxDaysElapsed
  /\ today' = today + 1
  /\ process = "running"
  /\ step' = StepOf(NoEvent, "midnight", "none", NoResult, 0, now, 0, "none")
  /\ UNCHANGED <<aiCooldown, startCache, sheet, now, deploy, inflight, accepted, process, history>>

Init ==
  /\ deploy \in Deployments
  /\ aiCooldown = [id \in TargetIds |-> 0]
  /\ startCache = [k \in CacheKeys |-> NoDate]
  /\ sheet \in InitSheets(deploy)
  /\ now = NowBase
  /\ today = Today0
  /\ inflight = [s \in Slots |-> Idle]
  /\ step = StepOf(NoEvent, "init", "none", NoResult, 0, NowBase, 0, "none")
  /\ accepted = [id \in TargetIds |-> 0]
  /\ process = "running"
  /\ history = NoHistory

Next ==
  \/ \E ev \in Traffic(deploy.load), t \in ClockReadings : Receive(ev, t)
  \/ \E ev \in Traffic(deploy.load), t \in ClockReadings : ReceiveFaqFirst(ev, t)
  \/ \E s \in Slots, o \in BackendOutcomes : ResumeAi(s, o)
  \/ \E s \in Slots, o \in ReadOutcomes : ResumeEnsure(s, o)
  \/ \E s \in Slots, o \in ReadOutcomes : ResumeDebug(s, o)
  \/ \E s \in Slots, o \in FetchOutcomes : ResumeUpsert(s, o)
  \/ Midnight

Spec == Init /\ [][Next]_vars

TypeOK ==
  /\ deploy \in Deployments
  /\ \A id \in TargetIds : aiCooldown[id] \in 0..MaxNow /\ accepted[id] \in 0..MaxNow
  /\ \A k \in CacheKeys :
       startCache[k] \in BadDate..FutureStart /\ sheet[k] \in BadDate..FutureStart
  /\ process \in {"running", "exited"}
  /\ today \in Today0..(Today0 + MaxDaysElapsed)
  /\ now \in NowBase..MaxNow
  /\ \A s \in Slots : inflight[s].sends = 0

-----------------------------------------------------------------------------
(* Vocabulary of the properties                                               *)

IsText(ev) == ev.type = "message" /\ ev.mtype = "text"
IsMulti(ev) == ev.src.type \in {"group", "room"}

\* A group or room text without the "#" marker, or with nothing after it
IsDropCase(ev) ==
  /\ IsText(ev) /\ IsMulti(ev)
  /\ LET x == Trim(ev.text)
     IN  ~StartsWith(x, HASH) \/ Trim(Tail(x)) = <<>>

\* A text message the scope filter lets through, and the text the resolver sees
Passes(ev) == IsText(ev) /\ ~IsDropCase(ev)
Seen(ev) == IF IsMulti(ev) THEN Trim(Tail(inputText(ev.text))) ELSE inputText(ev.text)

\* An AI request: the trigger phrase followed by a question
IsAiRequest(ev) ==
  Passes(ev) /\ StartsWith(Seen(ev), TRIGGER) /\ questionOf(Seen(ev)) # <<>>

Kinds(sent) == {sent[i].kind : i \in 1..Len(sent)}
AiKinds == {"wait", "hint", "ai_noconf", "ai_answer", "ai_empty", "ai_busy", "error"}
CommandKinds ==
  {"help", "status", "debug", "already", "started", "restarted", "range", "aligned",
   "menu", "needstart_menu", "companion", "needstart", "slot", "slot_none"}
CommandPcs ==
  {"start", "menu", "companion", "slot", "debug", "start_upsert", "restart_upsert",
   "setday_upsert"}

StepId == getTarget_(step.ev).targetId
StepKey == KeyOf(step.ev)

-----------------------------------------------------------------------------
(* C1: an AI request is rejected with the wait message, without a backend     *)
(* call, exactly when it arrives less than 20000 ms after the last accepted   *)
(* AI request of its conversation; otherwise it is accepted, the backend is   *)
(* invoked and the timestamp becomes its arrival time.  (Stated for a         *)
(* configured deployment and a request that reaches the gateway.)             *)
C1_CooldownGateExact ==
  (/\ step.phase = "receive" /\ deploy.vectorStore
   /\ IsAiRequest(step.ev) /\ step.gate # "none")
  => LET tooSoon == step.t - step.prev < COOLDOWN_MS
     IN  /\ tooSoon <=> (step.gate = "wait" /\ Kinds(step.sent) = {"wait"} /\ ~step.backend)
         /\ ~tooSoon => (step.gate = "ask" /\ step.backend /\ aiCooldown[StepId] = step.t)

(* C2: of the AI requests of one conversation, at most one passes the gate    *)
(* and reaches the backend within any 20000 ms window, however their          *)
(* handlers interleave: a request passes only 20000 ms or more after the      *)
(* previous one that passed, and no two calls in flight are closer.           *)
C2_OnePerWindow ==
  /\ (step.phase = "receive" /\ step.gate = "ask") => step.t - step.prev >= COOLDOWN_MS
  /\ \A s1, s2 \in Slots :
       (/\ s1 # s2 /\ inflight[s1].pc = "ai" /\ inflight[s2].pc = "ai"
        /\ getTarget_(inflight[s1].ev).targetId = getTarget_(inflight[s2].ev).targetId
        /\ inflight[s1].n <= inflight[s2].n)
       => inflight[s2].n - inflight[s1].n >= COOLDOWN_MS

\* A request is turned away while an accepted one of its conversation is still
\* waiting for the backend
C2_Witness ==
  /\ step.phase = "receive" /\ step.gate = "wait" /\ IsAiRequest(step.ev)
  /\ \E s \in Slots :
       /\ inflight[s].pc = "ai"
       /\ getTarget_(inflight[s].ev).targetId = StepId
       /\ step.t - inflight[s].n < COOLDOWN_MS

(* C3: a request the cooldown gate rejects leaves every cooldown timestamp    *)
(* as it was, so the time at which the next request passes does not move.     *)
C3_RejectKeepsTimestamp ==
  [][(step'.phase = "receive" /\ step'.gate = "wait")
       => /\ aiCooldown' = aiCooldown
          /\ step'.t - aiCooldown[getTarget_(step'.ev).targetId] < COOLDOWN_MS]_vars

\* A rejected request, later than the timestamp it was measured against
C3_Witness ==
  /\ step.phase = "receive" /\ step.gate = "wait"
  /\ aiCooldown[StepId] < step.t

(* C4 as claimed: a message that starts with the trigger phrase and also      *)
(* matches a command (it contains the "what day is it" phrase or a time-slot  *)
(* label) gets the command's reply, and the AI gateway is not consulted.      *)
MatchesCommand(text) == Includes(text, WhichDayPhrase) \/ timeMatch(text) # <<>>

C5_TriggerBeforeFaqAlways ==
  (step.phase = "receive" /\ Passes(step.ev))
  => /\ StartsWith(Seen(step.ev), TRIGGER) => step.gate # "none"
     /\ step.faq => ~StartsWith(Seen(step.ev), TRIGGER)

(* C5 amended: in the full handler a message that starts with the trigger     *)
(* phrase goes to the AI gateway and the FAQ matcher is consulted only for    *)
(* messages without the trigger; in the FAQ-first handler the FAQ matcher is  *)
(* consulted for every message, its match is the reply, and the AI gateway is *)
(* reached only by a trigger message that matches no FAQ item.                *)
C5_TriggerBeforeFaq ==
  (step.phase = "receive" /\ Passes(step.ev)) =>
    LET text == Seen(step.ev)
        hit == matchFAQ(faqItems, text) # NoAnswer
    IN  IF deploy.rev = "full"
        THEN /\ StartsWith(text, TRIGGER) => step.gate # "none" /\ ~step.faq
             /\ step.faq => ~StartsWith(text, TRIGGER)
             /\ "faq" \in Kinds(step.sent) => hit
        ELSE /\ step.faq
             /\ hit => Kinds(step.sent) = {"faq"} /\ step.gate = "none"
             /\ step.gate # "none" => StartsWith(text, TRIGGER) /\ ~hit

\* "請問咖啡" names an FAQ keyword and still went to the backend
C5_Witness ==
  /\ deploy.rev = "full" /\ step.phase = "receive"
  /\ step.ev = TextEvent(UserSrc, T_askFaq)
  /\ matchFAQ(faqItems, T_faq) # NoAnswer /\ matchFAQ(faqItems, Seen(step.ev)) # NoAnswer
  /\ step.gate = "ask" /\ ~step.faq

(* C6: a group or room text that does not start with "#", or that is "#"      *)
(* followed only by white space, is dropped: nothing is sent, and the start   *)
(* date cache, the durable store and the cooldown timestamps stay as they are *)
C6_ScopeDrop ==
  [][(step'.phase = "receive" /\ IsDropCase(step'.ev))
       => /\ step'.sent = <<>> /\ step'.sends = 0 /\ step'.done
          /\ startCache' = startCache /\ sheet' = sheet /\ aiCooldown' = aiCooldown
          /\ inflight' = inflight]_vars

\* "#" and blanks from a group, handled
C6_Witness ==
  /\ step.phase = "receive" /\ step.ev = TextEvent(GroupSrc, Hash(<<" ", " ">>))
  /\ IsDropCase(step.ev) /\ step.sends = 0

-----------------------------------------------------------------------------
(* Two runs of the handler compared: a group or room message "#"+X and the    *)
(* direct message X                                                           *)

Handler(ev, t) == IF deploy.rev = "full" THEN handleEvent(ev, t) ELSE handleEventFaqFirst(ev, t)

Resume(c, outcome) ==
  CASE c.pc = "ai" -> AfterAi(c, outcome)
    [] c.pc \in {"start", "menu", "companion", "slot"} -> AfterSheetRead(c, outcome)
    [] c.pc = "debug" -> AfterDebugRead(c, outcome)
    [] OTHER -> AfterUpsert(c, outcome)

OutcomesOf(c) ==
  IF c.pc = "ai" THEN BackendOutcomes
  ELSE IF c.pc \in {"start_upsert", "restart_upsert", "setday_upsert"} THEN FetchOutcomes
  ELSE ReadOutcomes

SheetAfter(c, outcome) ==
  IF c.pc \in {"start_upsert", "restart_upsert", "setday_upsert"}
  THEN AfterUpsertSheet(c, outcome) ELSE sheet

SameConvState(u, g) ==
  /\ startCache[KeyOf(u)] = startCache[KeyOf(g)]
  /\ sheet[KeyOf(u)] = sheet[KeyOf(g)]
  /\ aiCooldown[getTarget_(u).targetId] = aiCooldown[getTarget_(g).targetId]

\* The replies with the conversation's own name blanked in the debug reply
Blind(sent) ==
  [i \in 1..Len(sent) |-> IF sent[i].kind = "debug" THEN [sent[i] EXCEPT !.x = <<>>] ELSE sent[i]]

\* Same branch, same reply, same updates for the own conversation
SameRun(ru, rg, u, g, strict) ==
  /\ IF strict THEN ru.sent = rg.sent ELSE Blind(ru.sent) = Blind(rg.sent)
  /\ ru.gate = rg.gate /\ ru.backend = rg.backend /\ ru.faq = rg.faq /\ ru.wrote = rg.wrote
  /\ ru.cont.pc = rg.cont.pc /\ ru.cont.n = rg.cont.n /\ ru.cont.m = rg.cont.m
  /\ ru.cd[getTarget_(u).targetId] = rg.cd[getTarget_(g).targetId]
  /\ ru.cache[KeyOf(u)] = rg.cache[KeyOf(g)]

SameHandling(u, g, t, strict) ==
  LET ru == Handler(u, t)
      rg == Handler(g, t)
  IN  /\ SameRun(ru, rg, u, g, strict)
      /\ ru.cont # Idle =>
           \A o \in OutcomesOf(ru.cont) :
             /\ SameRun(Resume(ru.cont, o), Resume(rg.cont, o), u, g, strict)
             /\ SheetAfter(ru.cont, o)[KeyOf(u)] = SheetAfter(rg.cont, o)[KeyOf(g)]

(* C7 as claimed: for every text X, a group or room message "#"+X is resolved *)
(* exactly as X in a direct conversation in the same state.                   *)
C7_ScopeEquivalenceAll ==
  \A X \in ProbeTexts, src \in {GroupSrc, RoomSrc}, t \in ClockReadings :
    LET u == TextEvent(UserSrc, X)
        g == TextEvent(src, Hash(X))
    IN  SameConvState(u, g) => SameHandling(u, g, t, TRUE)

(* C7 amended: for every text X that is not empty or blank, a group or room   *)
(* message "#"+X is resolved as X in a direct conversation in the same state: *)
(* same branch, same state updates, same reply text, except that the reply of *)
(* debug-start names the conversation's own type and id.                      *)
C7_ScopeEquivalence ==
  \A X \in ProbeTexts, src \in {GroupSrc, RoomSrc}, t \in ClockReadings :
    LET u == TextEvent(UserSrc, X)
        g == TextEvent(src, Hash(X))
    IN  (Trim(X) # <<>> /\ SameConvState(u, g)) => SameHandling(u, g, t, FALSE)

\* "#開始" from a group answered while the group and the direct conversation
\* hold the same start date
C7_Witness ==
  /\ step.ev = TextEvent(GroupSrc, Hash(StartWord)) /\ step.done /\ step.sends = 1
  /\ SameConvState(TextEvent(UserSrc, StartWord), step.ev)
  /\ startCache[StepKey] # NoDate

(* C8: an event gets at most one send call: exactly one once the handler of   *)
(* a text message that passed the scope filter has finished, the apology      *)
(* after a fault included, and none for any other event; no handler replies   *)
(* before its last await.                                                     *)
C8_OneSendPerEvent ==
  /\ step.sends <= 1
  /\ (step.done /\ step.phase # "init") => step.sends = IF Passes(step.ev) THEN 1 ELSE 0
  /\ "error" \in Kinds(step.sent) => Kinds(step.sent) = {"error"} /\ step.sends = 1
  /\ \A s \in Slots : inflight[s].sends = 0

\* The backend failed and the apology was the one reply
C8_Witness ==
  /\ step.phase = "ai" /\ step.done /\ Kinds(step.sent) = {"error"} /\ step.sends = 1

(* C9: when a start, restart or set-day command has put date D in the cache,  *)
(* ensureStartISO for that conversation returns D from the cache, without a   *)
(* store read, and the completion of the store write, whether it succeeded    *)
(* or failed, leaves the cache as it is.                                      *)
CacheAnswers(ev, date) ==
  LET r == EnsureThen(ev, "menu")
  IN  /\ startCache[KeyOf(ev)] = date
      /\ r.cont = Idle /\ r.cache = startCache
      /\ r.sent = <<Reply("menu", currentDay(date, today), 0, <<>>)>>

WrittenDateAnswers == step.wrote # NoDate => CacheAnswers(step.ev, step.wrote)

C9_ReadAfterWrite ==
  [][/\ WrittenDateAnswers'
     /\ step'.phase = "upsert" => startCache' = startCache]_vars

\* A command wrote the cache, its store write failed, and the cache still
\* answers with the date written
C9_Witness ==
  /\ step.phase = "upsert" /\ step.done
  /\ startCache[StepKey] # NoDate /\ sheet[StepKey] # startCache[StepKey]
  /\ CacheAnswers(step.ev, startCache[StepKey])

(* C10: while a start date exists for the conversation, in the cache or in    *)
(* the store, no run of the handler of a "start" message puts another date    *)
(* in the cache or in the store.                                              *)
IsStartCommand(ev) ==
  Passes(ev) /\ (Seen(ev) = StartWord \/ ToLowerCase(Seen(ev)) = StartAscii)

Existing(key) == IF startCache[key] # NoDate THEN startCache[key] ELSE sheet[key]

C10_StartIdempotent ==
  [][\A key \in CacheKeys :
       (IsStartCommand(step'.ev) /\ KeyOf(step'.ev) = key /\ Existing(key) # NoDate)
       => /\ startCache'[key] \in {startCache[key], Existing(key)}
          /\ sheet'[key] \in {sheet[key], Existing(key)}]_vars

-----------------------------------------------------------------------------
(* The process with its scheduling: every handler whose awaited backend call  *)
(* or store read has an outcome is resumed.  Nothing is assumed about the store  *)
(* write: it may be slow, fail, or never return.                              *)
UpsertPcs == {"start_upsert", "restart_upsert", "setday_upsert"}

LiveSpec ==
  /\ Spec
  /\ \A s \in Slots : WF_vars(\E o \in BackendOutcomes : ResumeAi(s, o))
  /\ \A s \in Slots : WF_vars(\E o \in ReadOutcomes : ResumeEnsure(s, o))
  /\ \A s \in Slots : WF_vars(\E o \in ReadOutcomes : ResumeDebug(s, o))

(* C11: the reply of a start, restart or set-day command does not wait for    *)
(* the store write: a handler that has started the write gets its reply sent  *)
(* whatever the write does, also when it never returns.                       *)
C11_WriteNeverBlocksReply ==
  \A s \in Slots : (inflight[s].pc \in UpsertPcs) ~> (inflight[s].pc \notin UpsertPcs)

-----------------------------------------------------------------------------
(* A set-day message: "第", a number in decimal digits, "天"                  *)
IsSetDayText(text) ==
  /\ Len(text) >= 3 /\ text[1] = "di" /\ text[Len(text)] = "tian"
  /\ \A i \in 2..(Len(text) - 1) : IsDigit(text[i])

TypedDay(text) == ParseInt(SubSeq(text, 2, Len(text) - 1), 0)

(* C12: a set-day message whose number is outside 1..45, zero and numbers of  *)
(* three or more digits included, is answered with the range message and      *)
(* leaves the cache and the store as they are.                                *)
C12_OutOfRangeRejected ==
  [][(/\ step'.phase = "receive" /\ Passes(step'.ev)
      /\ IsSetDayText(Seen(step'.ev))
      /\ TypedDay(Seen(step'.ev)) \notin MinDay..MaxDay)
       => /\ Kinds(step'.sent) = {"range"} /\ step'.done
          /\ startCache' = startCache /\ sheet' = sheet]_vars

-----------------------------------------------------------------------------
(* C13: for every N in 1..45 and today T, buildStartISOFromDayInput(N) is T   *)
(* minus N-1 days and the current day of that start date is N; so a menu      *)
(* reply for a conversation whose start date was set from day N today reports *)
(* day N.                                                                     *)
C13_ClockRoundTrip ==
  /\ \A N \in MinDay..MaxDay :
       /\ buildStartISOFromDayInput(N, today) = today - (N - 1)
       /\ currentDay(buildStartISOFromDayInput(N, today), today) = N
  /\ \A N \in MinDay..MaxDay :
       (/\ Kinds(step.sent) = {"menu"}
        /\ startCache[StepKey] = buildStartISOFromDayInput(N, today))
       => step.sent[1].n = N

-----------------------------------------------------------------------------
(* C14: in every reachable state the program day of every conversation that   *)
(* has a start date, cached or stored, is in 1..45: 1 for a start date later  *)
(* than today, 45 for one 45 days back or more; every reply that names a day  *)
(* names one in 1..45.                                                        *)
DayKinds == {"menu", "companion", "slot", "slot_none", "already", "started"}

DayInRange(startISO) ==
  /\ currentDay(startISO, today) \in MinDay..MaxDay
  /\ startISO > today => currentDay(startISO, today) = MinDay
  /\ startISO <= today - MaxDay => currentDay(startISO, today) = MaxDay

C14_DayAlwaysInRange ==
  /\ \A k \in CacheKeys :
       /\ IsDate(startCache[k]) => DayInRange(startCache[k])
       /\ IsDate(sheet[k]) => DayInRange(sheet[k])
  /\ \A i \in 1..Len(step.sent) :
       step.sent[i].kind \in DayKinds => step.sent[i].n \in MinDay..MaxDay

\* A menu reply of day 45 for a start date more than 45 days back
C14_Witness ==
  /\ Kinds(step.sent) = {"menu"} /\ step.sent[1].n = MaxDay
  /\ startCache[StepKey] = LongAgoStart /\ today - startCache[StepKey] > MaxDay

-----------------------------------------------------------------------------
(* C15: with the start date S fixed and today T >= S, a one-day advance of T  *)
(* raises the current day by exactly 1 while it is below 45 and leaves it at  *)
(* 45 from then on.                                                           *)
C15_DayAdvancesByOne ==
  [][today' = today + 1 =>
       \A k \in CacheKeys :
         LET S == sheet[k]
             before == currentDay(S, today)
         IN  (S # NoDate /\ sheet'[k] = S /\ S <= today)
             => currentDay(S, today)' = IF before < MaxDay THEN before + 1 ELSE MaxDay]_vars

-----------------------------------------------------------------------------
(* C16: a menu / "what day is it", companion or time-slot message of a        *)
(* conversation that has no start date in the cache and none in the store is  *)
(* answered with the "please start first" guidance, without a fault, and      *)
(* leaves the cache and the store without a start date.                       *)
IsStateQuery(ev) ==
  /\ Passes(ev) /\ ~StartsWith(Seen(ev), TRIGGER)
  /\ \/ Seen(ev) \in MenuWords \cup CompanionWords \cup {WhichDayShort}
     \/ Includes(Seen(ev), WhichDayPhrase)
     \/ timeMatch(Seen(ev)) # <<>>

C16_NoStateAsksToStart ==
  [][(/\ deploy.rev = "full" /\ step'.phase \in {"receive", "read"}
      /\ IsStateQuery(step'.ev)
      /\ startCache[KeyOf(step'.ev)] = NoDate /\ sheet[KeyOf(step'.ev)] = NoDate)
       => /\ startCache' = startCache /\ sheet' = sheet
          /\ Kinds(step'.sent) \subseteq {"needstart", "needstart_menu"}
          /\ step'.done => step'.sends = 1 /\ Len(step'.sent) = 1]_vars

\* A time-slot message answered with the guidance after the store had nothing
C16_Witness ==
  /\ step.phase = "read" /\ step.done /\ step.ev = TextEvent(UserSrc, T_slot)
  /\ Kinds(step.sent) = {"needstart"}
  /\ startCache[StepKey] = NoDate /\ sheet[StepKey] = NoDate

-----------------------------------------------------------------------------
(* C17: the handler of "restart", and the handler of "start" that found no    *)
(* start date, put today in the cache; the previous start date is discarded:  *)
(* until the command's reply is sent the cached date stays today unless       *)
(* another start, restart or set-day command writes it; and when the reply is *)
(* sent with today still cached, a menu request reports day 1.                *)
FreshStartPcs == {"start_upsert", "restart_upsert"}

C17_RestartDiscardsOldStart ==
  [][/\ (/\ step'.wrote # NoDate
         /\ (IsStartCommand(step'.ev) \/ (Passes(step'.ev) /\ Seen(step'.ev) = RestartWord)))
          => step'.wrote = today /\ startCache'[KeyOf(step'.ev)] = today
     /\ \A s \in Slots, k \in CacheKeys :
          (/\ inflight[s].pc \in FreshStartPcs /\ k = KeyOf(inflight[s].ev)
           /\ startCache[k] = today
           /\ step'.wrote = NoDate /\ today' = today)
          => /\ startCache'[k] = today
             /\ (inflight'[s].pc = "idle" /\ step'.phase = "upsert")
                  => currentDay(startCache'[k], today') = MinDay]_vars

-----------------------------------------------------------------------------
(* C18: a message that is the trigger phrase with nothing or only white space *)
(* after it is answered with the usage hint, and the backend is not called,   *)
(* whatever the cooldown timestamp of the conversation is.                    *)
IsBareTrigger(ev) ==
  Passes(ev) /\ StartsWith(Seen(ev), TRIGGER) /\ questionOf(Seen(ev)) = <<>>

C18_BareTriggerGetsHint ==
  (step.phase = "receive" /\ IsBareTrigger(step.ev))
  => /\ Kinds(step.sent) = {"hint"} /\ step.done
     /\ ~step.backend
     /\ \A s \in Slots : inflight[s].pc = "ai" => ~IsBareTrigger(inflight[s].ev)

-----------------------------------------------------------------------------
(* C19: when the backend call fails with the rate-limit condition the reply   *)
(* is the fixed retry-later message, given as a normal answer; when it fails  *)
(* in any other way the reply is the handler's apology, and it is the only    *)
(* reply; in both cases the handler has finished, its slot is free, and the   *)
(* module state is what it was.                                               *)
C19_BackendFailureClassified ==
  [][step'.phase = "ai" =>
       /\ step'.outcome = "rate_limit" => step'.sent = <<Reply("ai_busy", 0, 0, <<>>)>>
       /\ step'.outcome = "error" => step'.sent = <<Reply("error", 0, 0, <<>>)>>
       /\ step'.outcome \in {"text", "empty"} => Kinds(step'.sent) \subseteq {"ai_answer", "ai_empty"}
       /\ step'.done /\ step'.sends = 1
       /\ \E s \in Slots : inflight[s].pc = "ai" /\ inflight'[s] = Idle
       /\ UNCHANGED <<aiCooldown, startCache, sheet>>]_vars

\* The backend was rate-limited and the retry-later message was the reply
C19_Witness ==
  /\ step.phase = "ai" /\ step.outcome = "rate_limit"
  /\ Kinds(step.sent) = {"ai_busy"} /\ step.done /\ FreeSlots # {}

-----------------------------------------------------------------------------
(* The FAQ matcher on its own: a process that loads some FAQ list and calls   *)
(* matchFAQ on one text after another                                         *)

MaxFaqItems == 2

\* Items a knowledge file may hold; keywords <<>> stands for a missing
\* keyword list, answer NoAnswer for a missing answer
FaqItem(keywords, answer) == [keywords |-> keywords, answer |-> answer]

K_whichDayLong == <<"jin", "tian", "shi4", "na", "yi", "tian", "ma">>

FaqPool ==
  { FaqItem(<< <<"ka", "fei">>, <<"cha">> >>, 1),
    FaqItem(<< <<"jiu">> >>, 2),
    FaqItem(<< <<"ji", "tian">> >>, 3),
    FaqItem(<< <<"ka", "fei", "yin">> >>, 4),
    FaqItem(<< <<"zhen", "zhu", "nai", "cha">> >>, 5),
    FaqItem(<< <<"ka", "fei">>, <<"cha">>, <<"jiu">> >>, 6),
    FaqItem(<< K_whichDayLong >>, 7),
    FaqItem(<< <<"T", "E", "A">>, <<"FWE">>, <<" ">> >>, 8),
    FaqItem(<<>>, 9),
    FaqItem(<< <<"cha">> >>, NoAnswer) }

RECURSIVE ListsUpTo(_)
ListsUpTo(n) ==
  IF n = 0 THEN { <<>> }
  ELSE ListsUpTo(n - 1) \cup { Append(l, item) : l \in ListsUpTo(n - 1), item \in FaqPool }

FaqLists == ListsUpTo(MaxFaqItems)

FaqTexts ==
  { <<>>, <<" ", " ">>, <<"FWQ", "!", " ", "FWP">>,
    <<"ka", "fei">>, <<"ka", "fei", "yin">>, <<"he", "cha">>, <<"jiu", "jing">>,
    <<"ka", "fei", " ", "cha", "FWQ">>, <<"ji", "tian">>,
    <<"zhen", "zhu", "nai", "cha">>, <<"T", "e", "a", "!">>,
    K_whichDayLong \o <<"ka", "fei", "cha", "jiu">>, <<"h", "i">> }

FaqInit ==
  /\ deploy = [load |-> "faq", items |-> <<>>]
  /\ aiCooldown = [id \in TargetIds |-> 0]
  /\ startCache = [k \in CacheKeys |-> NoDate]
  /\ sheet = [k \in CacheKeys |-> NoDate]
  /\ now = NowBase
  /\ today = Today0
  /\ inflight = [s \in Slots |-> Idle]
  /\ step = [phase |-> "init", text |-> <<>>, answer |-> NoAnswer]
  /\ accepted = [id \in TargetIds |-> 0]
  /\ process = "running"
  /\ history = NoHistory

\* safeLoadJSON("knowledge/faq_50.json") at process start
LoadFaq(items) ==
  /\ step.phase = "init"
  /\ deploy' = [deploy EXCEPT !.items = items]
  /\ step' = [phase |-> "loaded", text |-> <<>>, answer |-> NoAnswer]
  /\ UNCHANGED <<aiCooldown, startCache, sheet, now, today, inflight, accepted, process, history>>

\* One call matchFAQ(text)
MatchCall(text) ==
  /\ step.phase # "init"
  /\ step' = [phase |-> "matched", text |-> text, answer |-> matchFAQ(deploy.items, text)]
  /\ UNCHANGED <<aiCooldown, startCache, sheet, now, today, deploy, inflight, accepted, process, history>>

FaqNext ==
  \/ \E items \in FaqLists : LoadFaq(items)
  \/ \E text \in FaqTexts : MatchCall(text)

FaqSpec == FaqInit /\ [][FaqNext]_vars

(* The reference definition of the match *)
Folded(text) == applySynonyms(normalizeText(text))

RefWeight(kw) == IF (Len(kw) + 1) \div 2 > 3 THEN 3 ELSE (Len(kw) + 1) \div 2

RECURSIVE RefSum(_, _, _)
RefSum(item, t, n) ==
  IF n = 0 THEN 0
  ELSE LET kw == Folded(item.keywords[n])
       IN  RefSum(item, t, n - 1) + (IF kw # <<>> /\ Includes(t, kw) THEN RefWeight(kw) ELSE 0)

RefScore(item, t) == RefSum(item, t, Len(item.keywords))

RefMatch(items, text) ==
  LET t == Folded(text)
      eligible == {i \in 1..Len(items) : items[i].keywords # <<>> /\ items[i].answer # NoAnswer}
      top == {i \in eligible : \A j \in eligible : RefScore(items[j], t) <= RefScore(items[i], t)}
  IN  IF eligible = {} THEN NoAnswer
      ELSE LET first == CHOOSE i \in top : \A j \in top : i <= j
           IN  IF RefScore(items[first], t) >= 1 THEN items[first].answer ELSE NoAnswer

(* C20: matchFAQ returns, for every input and every FAQ list, the answer of   *)
(* the first item in list order with the highest score when that score is at  *)
(* least 1, and null otherwise; the score of an item is the sum over its      *)
(* keywords whose folded form is not empty and occurs in the folded input of  *)
(* min(3, ceil(length / 2)); items without keywords or without an answer do   *)
(* not count; empty, blank and punctuation-only input gives null.             *)
C20_FaqMatchIsReference ==
  step.phase = "matched" =>
    /\ step.answer = RefMatch(deploy.items, step.text)
    /\ normalizeText(step.text) = <<>> => step.answer = NoAnswer

\* Two items tie on "咖啡" and the earlier one answers
C20_Witness ==
  /\ step.phase = "matched" /\ Len(deploy.items) = 2
  /\ RefScore(deploy.items[1], Folded(step.text)) = RefScore(deploy.items[2], Folded(step.text))
  /\ deploy.items[1].answer # deploy.items[2].answer
  /\ step.answer = deploy.items[1].answer /\ step.answer # NoAnswer

-----------------------------------------------------------------------------
(* C22: the cooldown timestamp of a conversation is changed only by a request *)
(* for which the backend is invoked; a bare trigger (empty question) and a    *)
(* request answered "not configured" because OPENAI_VECTOR_STORE_ID is absent *)
(* leave every timestamp as it was.                                           *)
C22_StampOnlyWhenInvoked ==
  [][/\ aiCooldown' # aiCooldown => step'.backend
     /\ (step'.phase = "receive" /\ IsBareTrigger(step'.ev)) => aiCooldown' = aiCooldown
     /\ "ai_noconf" \in Kinds(step'.sent) => aiCooldown' = aiCooldown]_vars

-----------------------------------------------------------------------------
(* C23: the cooldown timestamp is set to the arrival time of an accepted      *)
(* request before its backend call is started, and the end of the call,       *)
(* failed or not, leaves it as it is: an AI request of the same conversation  *)
(* that arrives less than 20000 ms after an accepted request whose backend    *)
(* call failed is rejected with the wait message, without a backend call.     *)
(* (Stated for a request that reaches the gateway: the FAQ-first handler      *)
(* answers a question that names an FAQ keyword before the gateway.)          *)
C23_FailedCallSpendsWindow ==
  [][\A id \in TargetIds :
       id = getTarget_(step'.ev).targetId =>
         /\ (step'.phase = "receive" /\ step'.backend) =>
              /\ aiCooldown'[id] = step'.t
              /\ \E s \in Slots : inflight'[s].pc = "ai" /\ inflight'[s].n = aiCooldown'[id]
         /\ step'.phase = "ai" => aiCooldown' = aiCooldown
         /\ (/\ step'.phase = "receive" /\ IsAiRequest(step'.ev) /\ step'.gate # "none"
             /\ history.failedAsk[id] # 0
             /\ step'.t - history.failedAsk[id] < COOLDOWN_MS)
              => /\ step'.gate = "wait" /\ Kinds(step'.sent) = {"wait"}
                 /\ ~step'.backend /\ step'.done]_vars

\* A request rejected because of an accepted one whose backend call had failed
C23_Witness ==
  /\ step.phase = "receive" /\ step.gate = "wait" /\ IsAiRequest(step.ev)
  /\ history.failedAsk[StepId] # 0 /\ aiCooldown[StepId] = history.failedAsk[StepId]
  /\ step.t - history.failedAsk[StepId] < COOLDOWN_MS
  /\ \A s \in Slots : inflight[s].pc # "ai"

-----------------------------------------------------------------------------
(* A run of a handler that ends in a fault: the backend call failed, the      *)
(* reply was rejected by the LINE API, or the event is malformed              *)
IsMalformed(ev) == ev.type = "null" \/ (IsText(ev) /\ ev.text = NotAString)

FaultStep ==
  \/ step.phase = "ai" /\ step.outcome \in {"rate_limit", "error"}
  \/ step.send = "fail"
  \/ step.phase = "receive" /\ IsMalformed(step.ev)

\* Every handler waiting for the backend or for a store read can be resumed
Resumable ==
  \A s \in Slots :
    /\ inflight[s].pc = "ai" => ENABLED (\E o \in BackendOutcomes : ResumeAi(s, o))
    /\ inflight[s].pc \in {"start", "menu", "companion", "slot"} =>
         ENABLED (\E o \in ReadOutcomes : ResumeEnsure(s, o))
    /\ inflight[s].pc = "debug" => ENABLED (\E o \in ReadOutcomes : ResumeDebug(s, o))

(* C21: the events of a batch are handled independently.  A run that ends in  *)
(* a fault leaves the process running and every other handler in flight as it *)
(* was; every handler waiting for the backend or for a store read can still   *)
(* be resumed, and the handler of a text message that passed the scope filter *)
(* ends with its one send call, whatever faults other handlers met.           *)
C21_BatchFaultIsolation ==
  [][/\ process' = "running"
     /\ Resumable'
     /\ FaultStep' =>
          \A s \in Slots :
            inflight'[s] # inflight[s] => inflight[s].ev = step'.ev /\ inflight'[s] = Idle
     /\ (step'.done /\ step'.phase # "midnight" /\ Passes(step'.ev)) => step'.sends = 1]_vars

\* A reply was rejected by the LINE API and the handler's promise with it,
\* while another handler waits for the backend: the process runs on
C21_Witness ==
  /\ step.send = "fail" /\ step.rejected /\ process = "running"
  /\ \E s \in Slots : inflight[s].pc = "ai" /\ inflight[s].ev # step.ev

-----------------------------------------------------------------------------
(* The replies only the time-slot branch gives, and a text with a time label  *)
(* somewhere in it                                                            *)
SlotKinds == {"slot", "slot_none"}

ContainsLabel(text) ==
  \E i \in 1..Len(text) : i + 4 <= Len(text) /\ SubSeq(text, i, i + 4) \in TimeLabels

(* C24 as claimed: a message is answered by the time-slot branch only when    *)
(* its content is exactly one of the ten HH:MM labels; a message that has a   *)
(* label inside other text is not.                                            *)
C24_SlotExactOnly ==
  /\ Kinds(step.sent) \cap SlotKinds # {} => Seen(step.ev) \in TimeLabels
  /\ \A s \in Slots : inflight[s].pc = "slot" => Seen(inflight[s].ev) \in TimeLabels

(* C24 amended: a message is answered by the time-slot branch when its        *)
(* content contains one of the ten HH:MM labels anywhere and no earlier       *)
(* branch takes it (it does not start with the trigger phrase and does not    *)
(* contain the "what day is it" phrase); the leftmost label selects the slot, *)
(* and a conversation without a start date gets the guidance to start.        *)
(* A message without a label is never answered by the time-slot branch.       *)
C24_SlotContainsLabel ==
  /\ Kinds(step.sent) \cap SlotKinds # {} => ContainsLabel(Seen(step.ev))
  /\ \A s \in Slots : inflight[s].pc = "slot" => ContainsLabel(Seen(inflight[s].ev))
  /\ (/\ deploy.rev = "full" /\ step.phase \in {"receive", "read"} /\ step.done
      /\ Passes(step.ev) /\ ~IsMalformed(step.ev) /\ ContainsLabel(Seen(step.ev))
      /\ ~StartsWith(Seen(step.ev), TRIGGER) /\ ~Includes(Seen(step.ev), WhichDayPhrase))
     => /\ Kinds(step.sent) \subseteq SlotKinds \cup {"needstart", "error"}
        /\ (step.phase = "receive" /\ IsDate(startCache[StepKey])) =>
             Kinds(step.sent) \subseteq SlotKinds
        /\ "slot" \in Kinds(step.sent) =>
             \E i \in 1..Len(Seen(step.ev)) :
               /\ step.sent[1].x = SubSeq(Seen(step.ev), i, i + 4)
               /\ \A j \in 1..(i - 1) : SubSeq(Seen(step.ev), j, j + 4) \notin TimeLabels

\* "08:00 早餐" answered with the content of the 08:00 slot
C24_Witness ==
  /\ step.ev = TextEvent(UserSrc, T_slotChat) /\ Seen(step.ev) \notin TimeLabels
  /\ Kinds(step.sent) = {"slot"} /\ step.sent[1].x = T_slot

-----------------------------------------------------------------------------
(* C25: faults of the durable store are absorbed where they occur.  A store   *)
(* read that fails, or that returns something that is not a date, ends as     *)
(* "not found": the cache is not populated and the command answers as for a   *)
(* conversation without a start date; the reply after a store write is the    *)
(* same whether the write succeeded or failed; and the apology of the catch   *)
(* block is sent only after a backend failure or for a malformed event, never *)
(* because of the store.                                                      *)
C25_StoreFaultsAbsorbed ==
  [][/\ \A s \in Slots :
          (inflight[s] # Idle /\ inflight'[s] # inflight[s]) =>
            LET c == inflight[s]
                key == KeyOf(c.ev)
            IN  /\ (/\ step'.phase = "read"
                    /\ (step'.outcome # "ok" \/ ~IsDate(sheet[key])))
                     => /\ step'.wrote = NoDate => startCache' = startCache
                        /\ c.pc = "start" => step'.wrote = today
                        /\ Kinds(step'.sent) \subseteq {"needstart", "needstart_menu", "debug"}
                /\ step'.phase = "upsert" => step'.sent = AfterUpsert(c, "ok").sent
     /\ "error" \in Kinds(step'.sent) => (step'.phase = "ai" \/ IsMalformed(step'.ev))]_vars

-----------------------------------------------------------------------------
(* C26: the cache is authoritative.  Once a conversation has a cached start   *)
(* date, the entry is changed only by a run of a start, restart or set-day    *)
(* command of that conversation, which puts its own date there; a date read   *)
(* from the store, by ensureStartISO or by debug-start, never replaces it.    *)
C26_CacheAuthoritative ==
  [][\A k \in CacheKeys :
       (startCache[k] # NoDate /\ startCache'[k] # startCache[k])
       => /\ step'.wrote # NoDate /\ KeyOf(step'.ev) = k
          /\ startCache'[k] = step'.wrote
          /\ step'.phase # "read"]_vars

-----------------------------------------------------------------------------
(* C27: when no handler is in flight and no store call has failed, the store  *)
(* holds, for every conversation whose cached start date is the one a command *)
(* last wrote, that same date, whatever the order in which concurrent start,  *)
(* restart and set-day commands were handled and their store writes ended.    *)
Quiescent == \A s \in Slots : inflight[s] = Idle

C27_CacheStoreConverge ==
  (deploy.gas /\ Quiescent /\ ~history.storeFailed) =>
    \A k \in CacheKeys :
      (history.commanded[k] # NoDate /\ startCache[k] = history.commanded[k])
      => sheet[k] = startCache[k]

-----------------------------------------------------------------------------
(* The conversation an event belongs to (kind and id of its source), the      *)
(* times a handler may read from the clock, and what a conversation sees of a *)
(* run: the replies, where the handler suspends, and the conversation's own   *)
(* cooldown timestamp and cache entry                                         *)
ConversationOf(ev) ==
  <<ev.src.type,
    CASE ev.src.type = "group" -> ev.src.groupId
      [] ev.src.type = "room" -> ev.src.roomId
      [] OTHER -> ev.src.userId>>

AllTimes == {NowBase + k * TickMs : k \in 0..MaxTicks}

ViewOf(r, ev) ==
  [sent |-> r.sent, pc |-> r.cont.pc, n |-> r.cont.n, m |-> r.cont.m, gate |-> r.gate,
   backend |-> r.backend, wrote |-> r.wrote,
   cd |-> r.cd[ConversationOf(ev)[2]], cache |-> r.cache[ConversationOf(ev)]]

\* What the handler of ev, started at time t, does (as a one-element set)
HandlerView(ev, t) == {ViewOf(r, ev) : r \in {Handler(ev, t)}}

\* What the suspended handler c does when it is resumed, per outcome
ResumeView(c) ==
  [o \in OutcomesOf(c) |->
     {[view |-> ViewOf(r, c.ev), sheet |-> SheetAfter(c, o)[ConversationOf(c.ev)]] : r \in {Resume(c, o)}}]

HandlerPhases == {"receive", "ai", "read", "upsert"}

(* C28: a run of the handler of a message of conversation A leaves the cached *)
(* and the stored start date and the cooldown timestamp of every other        *)
(* conversation B as they were, and changes nothing in how a message of B is  *)
(* answered: the handler of every message of B, started at any time, and      *)
(* every suspended handler of B, resumed with any outcome, gives the same     *)
(* replies and the same updates of B's own state after the run as before it.  *)
C28_ConversationIsolation ==
  [][step'.phase \in HandlerPhases =>
       LET A == ConversationOf(step'.ev)
       IN  /\ \A k \in CacheKeys \ {A} : startCache'[k] = startCache[k] /\ sheet'[k] = sheet[k]
           /\ \A id \in TargetIds \ {A[2]} : aiCooldown'[id] = aiCooldown[id]
           /\ \A evB \in Traffic(deploy.load) :
                (ConversationOf(evB) \in CacheKeys \ {A}) =>
                  \A t \in AllTimes : HandlerView(evB, t)' = HandlerView(evB, t)
           /\ \A s \in Slots :
                (inflight[s] # Idle /\ ConversationOf(inflight[s].ev) # A)
                => /\ inflight'[s] = inflight[s]
                   /\ ResumeView(inflight[s])' = ResumeView(inflight[s])]_vars

\* A group started its program while the sender's direct conversation has a
\* start date of its own, and both are kept apart
C28_Witness ==
  /\ ConversationOf(step.ev) = <<"group", "C1">> /\ step.ev.src.userId = "U1"
  /\ step.wrote # NoDate /\ startCache[<<"group", "C1">>] = step.wrote
  /\ IsDate(startCache[<<"user", "U1">>])
  /\ startCache[<<"user", "U1">>] # startCache[<<"group", "C1">>]

=============================================================================
